---- MODULE Spec2Model ----
(***************************************************************************)
(* tsh (tinyShell.c): the job table, the command loop (eval, do_bgfg,      *)
(* waitfg) and the three signal handlers, as one state machine.            *)
(*                                                                         *)
(* The main flow is cut at every access to the job table, so a handler     *)
(* can run between any two of them.  sigchld_handler is cut at every       *)
(* waitpid call.  sigint_handler and sigtstp_handler only read the table   *)
(* and are one step each.  A C array index i (0-based) is slot i+1 here,   *)
(* and slot 0 stands for the NULL job pointer.                             *)
(***************************************************************************)
EXTENDS Integers, FiniteSets, Sequences

(* Bounds of the model.  The program's table has 16 slots (tinyShell.c:20); *)
(* the model keeps the code and scales the table.  A behaviour of Spec     *)
(* forks at most MaxForks children, which die or stop at most MaxEvents    *)
(* times in all; LaunchSpec, which only launches, has its own two bounds.  *)
MAXJOBS == 4
MaxForks == 2
MaxEvents == 2
LaunchForks == 6
LaunchEvents == 3
(* ChildSpec follows the child of one launch through eval's child branch;  *)
(* the command has at most MaxTokens tokens after its name, and the child  *)
(* dies of other causes at most ChildEvents times.                         *)
MaxTokens == 4
ChildEvents == 1

(* Job states, tinyShell.c:24-27 *)
UNDEF == 0
FG == 1
BG == 2
ST == 3

Slots == 1..MAXJOBS
Pids == 1..(IF MaxForks > LaunchForks THEN MaxForks ELSE LaunchForks)

VARIABLES
    jobs,        \* struct job_t jobs[MAXJOBS]
    nextjid,     \* int nextjid
    shell,       \* the shell process: "running", "exited", "crashed"
    pc,          \* where the main flow stands
    argv0,       \* eval/do_bgfg: "run" (an executable), "bg" or "fg"
    bg,          \* eval: the bg flag parseline returned
    pid,         \* eval/do_bgfg/waitfg: the local pid
    this_job,    \* do_bgfg: the slot this_job points to (0: NULL)
    currentjob,  \* waitfg: the slot currentjob points to (0: NULL)
    addjob_i,    \* addjob: the slot its loop stopped at (0: not in addjob)
    mask,        \* TRUE while SIGCHLD and SIGINT are blocked by eval
    chldPending, \* a SIGCHLD is pending for the shell
    inChld,      \* sigchld_handler is running (SIGCHLD blocked meanwhile)
    proc,        \* kernel view of each child of the shell
    nforks,      \* children forked so far
    nevents,     \* deaths and stops of children so far
    last,        \* what the last step did: operation, output, signal sent
    child        \* the child of a launch inside eval's child branch

vars == <<jobs, nextjid, shell, pc, argv0, bg, pid, this_job, currentjob,
          addjob_i, mask, chldPending, inChld, proc, nforks, nevents, last,
          child>>

locals == <<argv0, bg, pid, this_job, currentjob, addjob_i>>
kernel == <<proc, nforks, nevents, chldPending>>

(***************************************************************************)
(* Helper routines that manipulate the job list                            *)
(***************************************************************************)
Min(S) == CHOOSE x \in S : \A y \in S : x <= y
Max(S) == CHOOSE x \in S : \A y \in S : x >= y

\* clearjob: the cleared slot
clearjob == [pid |-> 0, jid |-> 0, state |-> UNDEF, cmdline |-> ""]

\* initjobs
initjobs == [i \in Slots |-> clearjob]

\* maxjid: largest allocated job ID
maxjid(J) == Max({0} \cup {J[i].jid : i \in Slots})

\* the for-loop of addjob: first slot with pid == 0, 0 when there is none
\* (addjob_slot_overwrites: an addjob that takes the last slot when none is
\*  free)
addjob_slot_overwrites(J) ==
    IF \E i \in Slots : J[i].pid = 0
    THEN Min({i \in Slots : J[i].pid = 0})
    ELSE MAXJOBS
addjob_slot(J) ==
    IF \E i \in Slots : J[i].pid = 0
    THEN Min({i \in Slots : J[i].pid = 0})
    ELSE 0

\* addjob: jobs[i].jid = nextjid++
addjob_jid(nj) == nj

\* addjob: if (nextjid > MAXJOBS) nextjid = 1
addjob_nextjid(nj) == IF nj + 1 > MAXJOBS THEN 1 ELSE nj + 1

\* getjobpid: slot of the job with PID p, 0 (NULL) when none
getjobpid(J, p) ==
    IF p < 1 THEN 0
    ELSE IF \E i \in Slots : J[i].pid = p
         THEN Min({i \in Slots : J[i].pid = p})
         ELSE 0

\* getjobjid: slot of the job with job ID j, 0 (NULL) when none
\* (getjobjid_unguarded: getjobjid without the jid < 1 test of line 686)
getjobjid_unguarded(J, j) ==
    IF \E i \in Slots : J[i].jid = j
    THEN Min({i \in Slots : J[i].jid = j})
    ELSE 0
getjobjid(J, j) ==
    IF j < 1 THEN 0
    ELSE IF \E i \in Slots : J[i].jid = j
         THEN Min({i \in Slots : J[i].jid = j})
         ELSE 0

\* fgpid: PID of the first slot in state FG, 0 if none
fgpid(J) ==
    IF \E i \in Slots : J[i].state = FG
    THEN J[Min({i \in Slots : J[i].state = FG})].pid
    ELSE 0

\* pid2jid
pid2jid(J, p) ==
    IF getjobpid(J, p) = 0 THEN 0 ELSE J[getjobpid(J, p)].jid

\* deletejob: the table after deletejob(jobs, p)
\* (deletejob_jobs_keeps_state: a clearjob that leaves the state field)
deletejob_jobs_keeps_state(J, p) ==
    IF getjobpid(J, p) = 0 THEN J
    ELSE [J EXCEPT ![getjobpid(J, p)] =
                [clearjob EXCEPT !.state = J[getjobpid(J, p)].state]]
deletejob_jobs(J, p) ==
    IF getjobpid(J, p) = 0 THEN J
    ELSE [J EXCEPT ![getjobpid(J, p)] = clearjob]

\* deletejob: nextjid after deletejob(jobs, p)
\* (deletejob_nextjid_kept: a deletejob without line 652)
deletejob_nextjid_kept(J, nj, p) == nj
deletejob_nextjid(J, nj, p) ==
    IF getjobpid(J, p) = 0 THEN nj
    ELSE maxjid(deletejob_jobs(J, p)) + 1

(***************************************************************************)
(* The record of a step: the operation that ran, the message it printed    *)
(* and the kill() it made (sig "none": no kill).                           *)
(***************************************************************************)
Ev(op, out, to, sig) == [op |-> op, out |-> out, to |-> to, sig |-> sig]
Quiet(op) == Ev(op, "", 0, "none")
\* A step of the main flow, the kernel or a child that prints nothing and
\* sends nothing
Idle == Quiet("")

\* The text of a command line: a background launch ends in &
CmdLine(b) == IF b THEN "cmd &" ELSE "cmd"

(***************************************************************************)
(* Children, as the kernel sees them.                                      *)
(*   "none"   not forked yet, or reaped                                    *)
(*   "run"    running                                                      *)
(*   "stopU"  stopped, the stop not yet reported by waitpid(WUNTRACED)     *)
(*   "stopR"  stopped, the stop already reported                           *)
(*   "zombie" terminated and not reaped; whether it exited or was killed   *)
(*            by a signal is the status waitpid hands out when it is       *)
(*            reaped                                                       *)
(***************************************************************************)
ProcStates == {"none", "run", "stopU", "stopR", "zombie"}
Waitable == {"stopU", "zombie"}
Stopped == {"stopU", "stopR"}

\* kill(-p, SIGCONT): a stopped group resumes; any other target is untouched
Continue(P, p) ==
    IF p \in Pids /\ P[p] \in Stopped THEN [P EXCEPT ![p] = "run"] ELSE P

(***************************************************************************)
(* The child of a launch, from fork to execve (eval, lines 216-228).       *)
(*   pc       "none" (not running yet), "do_redirect", "setpgid",          *)
(*            "execve", "image" (execve succeeded: the target runs),       *)
(*            "exited" (exit(0) after execve failed)                       *)
(*   argv     the child's copy of argv, "NULL" where do_redirect cut it    *)
(*   i        do_redirect's index (1-based)                                *)
(*   stdin, stdout   "tty", or "file" after dup2                           *)
(*   openfail an open of do_redirect has failed                            *)
(***************************************************************************)
NoChild ==
    [pc |-> "none", pid |-> 0, argv |-> <<>>, i |-> 0,
     stdin |-> "tty", stdout |-> "tty", openfail |-> FALSE]

\* The words parseline hands out after the name of the executable: the two
\* redirection tokens and any other word
Tokens == {"<", ">", "f"}

\* The command lines a launch is tried with
ArgvInputs ==
    {<<"cmd">> \o t : t \in UNION {[1..n -> Tokens] : n \in 0..MaxTokens}}

\* main and initjobs: the shell before the first command
InitShell ==
    /\ jobs = initjobs
    /\ nextjid = 1
    /\ shell = "running"
    /\ pc = "prompt"
    /\ argv0 = ""
    /\ bg = FALSE
    /\ pid = 0
    /\ this_job = 0
    /\ currentjob = 0
    /\ addjob_i = 0
    /\ mask = FALSE
    /\ chldPending = FALSE
    /\ inChld = FALSE
    /\ proc = [p \in Pids |-> "none"]
    /\ nforks = 0
    /\ nevents = 0
    /\ last = Idle

\* Spec and LaunchSpec leave the inside of the child to ChildSpec
Init == InitShell /\ child = NoChild

\* The main flow runs when the shell is alive and no handler is on its stack
MainRuns == shell = "running" /\ ~inChld

\* eval returns to main's read loop: the locals die
ToPrompt ==
    /\ pc' = "prompt"
    /\ argv0' = ""
    /\ bg' = FALSE
    /\ pid' = 0
    /\ this_job' = 0
    /\ currentjob' = 0
    /\ addjob_i' = 0

(***************************************************************************)
(* eval: an executable is launched                                         *)
(***************************************************************************)
\* eval, lines 193-206: parseline, builtin_cmd fails, block signals, fork
EvalFork(b, limit) ==
    /\ MainRuns /\ pc = "prompt"
    /\ nforks < limit
    /\ nforks' = nforks + 1
    /\ proc' = [proc EXCEPT ![nforks + 1] = "run"]
    /\ mask' = TRUE
    /\ argv0' = "run"
    /\ bg' = b
    /\ pid' = nforks + 1
    /\ pc' = "addjob"
    /\ last' = Idle
    /\ UNCHANGED <<jobs, nextjid, shell, this_job, currentjob, addjob_i,
                   chldPending, nevents, inChld>>
    /\ UNCHANGED child

\* eval, lines 208-213: fork fails, unix_error prints and calls exit(1)
EvalForkFails ==
    /\ MainRuns /\ pc = "prompt"
    /\ mask' = TRUE
    /\ shell' = "exited"
    /\ last' = Ev("eval", "Fork error", 0, "none")
    /\ UNCHANGED <<jobs, nextjid, pc, locals, kernel, inChld>>
    /\ UNCHANGED child

\* addjob, lines 622-627: scan for a free slot and write the pid, or fail
AddjobPid ==
    /\ MainRuns /\ pc = "addjob"
    /\ IF addjob_slot(jobs) = 0
       THEN /\ pc' = "unblock"
            /\ last' = Ev("addjob", "Tried to create too many jobs", 0, "none")
            /\ UNCHANGED <<jobs, addjob_i>>
       ELSE /\ jobs' = [jobs EXCEPT ![addjob_slot(jobs)].pid = pid]
            /\ addjob_i' = addjob_slot(jobs)
            /\ pc' = "addjob_state"
            /\ last' = Idle
    /\ UNCHANGED <<nextjid, shell, argv0, bg, pid, this_job, currentjob, mask,
                   kernel, inChld>>
    /\ UNCHANGED child

\* eval, lines 236-245: the state eval registers the job with
\* (eval_state_always_fg: eval passing FG whatever bg is;
\*  eval_state_stopped: eval passing ST for a background job)
eval_state_always_fg(b) == FG
eval_state_stopped(b) == IF b THEN ST ELSE FG
eval_state(b) == IF b THEN BG ELSE FG

\* addjob, line 628: jobs[i].state = state
AddjobState ==
    /\ MainRuns /\ pc = "addjob_state"
    /\ jobs' = [jobs EXCEPT ![addjob_i].state = eval_state(bg)]
    /\ pc' = "addjob_jid"
    /\ last' = Idle
    /\ UNCHANGED <<nextjid, shell, locals, mask, kernel, inChld>>
    /\ UNCHANGED child

\* addjob, lines 629-636, and eval's banner for a background job (line 246)
AddjobJid ==
    /\ MainRuns /\ pc = "addjob_jid"
    /\ jobs' = [jobs EXCEPT ![addjob_i].jid = addjob_jid(nextjid),
                            ![addjob_i].cmdline = CmdLine(bg)]
    /\ nextjid' = addjob_nextjid(nextjid)
    /\ addjob_i' = 0
    /\ pc' = "unblock"
    /\ last' = Ev("addjob", IF bg THEN "banner" ELSE "", 0, "none")
    /\ UNCHANGED <<shell, argv0, bg, pid, this_job, currentjob, mask, kernel,
                   inChld>>
    /\ UNCHANGED child

\* eval, lines 249-252: unblock, then waitfg for a foreground launch
EvalUnblock ==
    /\ MainRuns /\ pc = "unblock"
    /\ mask' = FALSE
    /\ last' = Idle
    /\ IF bg
       THEN ToPrompt
       ELSE pc' = "waitfg" /\ UNCHANGED locals
    /\ UNCHANGED <<jobs, nextjid, shell, kernel, inChld>>
    /\ UNCHANGED child

(***************************************************************************)
(* waitfg                                                                  *)
(***************************************************************************)
\* waitfg, lines 478-482: currentjob = getjobpid(jobs, pid); NULL returns
WaitfgLookup ==
    /\ MainRuns /\ pc = "waitfg"
    /\ last' = Idle
    /\ IF getjobpid(jobs, pid) = 0
       THEN ToPrompt
       ELSE /\ currentjob' = getjobpid(jobs, pid)
            /\ pc' = "waitfg_loop"
            /\ UNCHANGED <<argv0, bg, pid, this_job, addjob_i>>
    /\ UNCHANGED <<jobs, nextjid, shell, mask, kernel, inChld>>
    /\ UNCHANGED child

\* waitfg, line 486: the loop goes on while this holds
\* (waitfg_cond_never: a loop that never waits)
waitfg_cond_never(job) == FALSE
waitfg_cond(job) == job.state = FG

\* waitfg, lines 486-491: an iteration that finds the state FG sleeps and
\* changes nothing; the one that finds another state returns
WaitfgReturn ==
    /\ MainRuns /\ pc = "waitfg_loop"
    /\ ~waitfg_cond(jobs[currentjob])
    /\ last' = Idle
    /\ ToPrompt
    /\ UNCHANGED <<jobs, nextjid, shell, mask, kernel, inChld>>
    /\ UNCHANGED child

(***************************************************************************)
(* builtin_cmd: quit, jobs, bg and fg                                      *)
(***************************************************************************)
\* builtin_cmd, lines 325-327: quit calls exit(0)
Quit ==
    /\ MainRuns /\ pc = "prompt"
    /\ shell' = "exited"
    /\ last' = Idle
    /\ UNCHANGED <<jobs, nextjid, pc, locals, mask, kernel, inChld>>
    /\ UNCHANGED child

\* builtin_cmd, lines 329-333, and listjobs: prints the table, writes nothing
Jobs ==
    /\ MainRuns /\ pc = "prompt"
    /\ last' = Ev("jobs", "listjobs", 0, "none")
    /\ UNCHANGED <<jobs, nextjid, shell, pc, locals, mask, kernel, inChld>>
    /\ UNCHANGED child

\* The arguments a bg or fg command is tried with: none, %jid (jid 0 is
\* what atoi gives for text that is no number), a pid, and any other text
JidArgs == 0..MaxForks
PidArgs == 0..MaxForks
BgfgArgs ==
    {[kind |-> "none", n |-> 0], [kind |-> "bad", n |-> 0]}
    \cup {[kind |-> "jid", n |-> j] : j \in JidArgs}
    \cup {[kind |-> "pid", n |-> p] : p \in PidArgs}

\* do_bgfg, lines 406-441: the slot the argument resolves to, 0 when none
do_bgfg_resolve(J, arg) ==
    IF arg.kind = "jid" THEN getjobjid(J, arg.n)
    ELSE IF arg.kind = "pid" THEN getjobpid(J, arg.n)
    ELSE 0

\* do_bgfg, lines 406-441: the diagnostic of an argument that resolves to
\* no job
do_bgfg_error(name, arg) ==
    IF arg.kind = "none" THEN "command requires PID or %jobid argument"
    ELSE IF arg.kind = "jid" THEN "No such job"
    ELSE IF arg.kind = "pid" THEN "No such process"
    ELSE "argument must be a PID or %jobid"

\* do_bgfg, lines 406-441: the argument is resolved.  A %jid leaves the pid
\* to be read from the slot (line 424); a pid argument is the pid (line 429)
DoBgfg(name, arg) ==
    /\ MainRuns /\ pc = "prompt"
    /\ IF do_bgfg_resolve(jobs, arg) = 0
       THEN /\ last' = Ev("do_bgfg", do_bgfg_error(name, arg), 0, "none")
            /\ UNCHANGED <<pc, locals>>
       ELSE /\ last' = Idle
            /\ argv0' = name
            /\ this_job' = do_bgfg_resolve(jobs, arg)
            /\ pid' = IF arg.kind = "pid" THEN arg.n ELSE 0
            /\ pc' = IF arg.kind = "pid" THEN "bgfg_state" ELSE "bgfg_pid"
            /\ UNCHANGED <<bg, currentjob, addjob_i>>
    /\ UNCHANGED <<jobs, nextjid, shell, mask, kernel, inChld>>
    /\ UNCHANGED child

\* do_bgfg, line 424: pid = this_job->pid
BgfgReadPid ==
    /\ MainRuns /\ pc = "bgfg_pid"
    /\ pid' = jobs[this_job].pid
    /\ pc' = "bgfg_state"
    /\ last' = Idle
    /\ UNCHANGED <<jobs, nextjid, shell, argv0, bg, this_job, currentjob,
                   addjob_i, mask, kernel, inChld>>
    /\ UNCHANGED child

\* do_bgfg, lines 448 and 458: the state bg or fg writes
\* (do_bgfg_state_fg: bg writing FG as fg does)
do_bgfg_state_fg(name) == FG
do_bgfg_state(name) == IF name = "bg" THEN BG ELSE FG

\* do_bgfg, lines 448 and 458: this_job->state = BG or FG
BgfgSetState ==
    /\ MainRuns /\ pc = "bgfg_state"
    /\ jobs' = [jobs EXCEPT ![this_job].state = do_bgfg_state(argv0)]
    /\ pc' = "bgfg_kill"
    /\ last' = Idle
    /\ UNCHANGED <<nextjid, shell, locals, mask, kernel, inChld>>
    /\ UNCHANGED child

\* do_bgfg, lines 450-452 and 460-462: kill(-pid, SIGCONT); bg prints the
\* banner and returns, fg goes on to waitfg(pid)
BgfgKill ==
    /\ MainRuns /\ pc = "bgfg_kill"
    /\ proc' = Continue(proc, pid)
    /\ chldPending' = (chldPending \/ proc' # proc)
    /\ last' = Ev(argv0, IF argv0 = "bg" THEN "banner" ELSE "", pid, "SIGCONT")
    /\ IF argv0 = "bg"
       THEN ToPrompt
       ELSE pc' = "waitfg" /\ UNCHANGED locals
    /\ UNCHANGED <<jobs, nextjid, shell, mask, nforks, nevents, inChld>>
    /\ UNCHANGED child

(***************************************************************************)
(* Signal handlers                                                         *)
(***************************************************************************)
\* The kernel starts sigchld_handler: SIGCHLD is pending and not blocked
SigchldEnter ==
    /\ shell = "running"
    /\ chldPending /\ ~mask /\ ~inChld
    /\ inChld' = TRUE
    /\ chldPending' = FALSE
    /\ last' = Quiet("sigchld_handler")
    /\ UNCHANGED <<jobs, nextjid, shell, pc, locals, mask, proc, nforks, nevents>>
    /\ UNCHANGED child

\* sigchld_handler, lines 526-531: the table after a stop of the job in
\* slot i was reported
\* (sigchld_stopped_deletes: the stop branch clearing the slot as the two
\*  termination branches do)
sigchld_stopped_deletes(J, i) == [J EXCEPT ![i] = clearjob]
sigchld_stopped(J, i) == [J EXCEPT ![i].state = ST]

\* sigchld_handler, lines 514-535: one iteration; waitpid returned p with
\* the status st ("exited", "signaled" or "stopped").  A stop of a child
\* that is in no slot writes through the NULL getjobpid returned (line 530),
\* which ends the shell.
SigchldReap(p, st) ==
    /\ shell = "running" /\ inChld
    /\ proc[p] \in Waitable
    /\ (st = "stopped") = (proc[p] = "stopU")
    /\ IF st = "stopped"
       THEN /\ proc' = [proc EXCEPT ![p] = "stopR"]
            /\ nextjid' = nextjid
            /\ IF getjobpid(jobs, p) = 0
               THEN /\ shell' = "crashed"
                    /\ last' = Quiet("sigchld_handler")
                    /\ jobs' = jobs
               ELSE /\ jobs' = sigchld_stopped(jobs, getjobpid(jobs, p))
                    /\ last' = Ev("sigchld_handler", "stopped", 0, "none")
                    /\ shell' = shell
       ELSE /\ proc' = [proc EXCEPT ![p] = "none"]
            /\ jobs' = deletejob_jobs(jobs, p)
            /\ nextjid' = deletejob_nextjid(jobs, nextjid, p)
            /\ last' = Ev("sigchld_handler",
                          IF st = "signaled" THEN "terminated" ELSE "", 0, "none")
            /\ shell' = shell
    /\ UNCHANGED <<pc, locals, mask, chldPending, inChld, nforks, nevents>>
    /\ UNCHANGED child

\* sigchld_handler, lines 514 and 536: waitpid finds no child with a status
\* to report, the loop ends and the handler returns
SigchldReturn ==
    /\ shell = "running" /\ inChld
    /\ \A p \in Pids : proc[p] \notin Waitable
    /\ inChld' = FALSE
    /\ last' = Idle
    /\ UNCHANGED <<jobs, nextjid, shell, pc, locals, mask, kernel>>
    /\ UNCHANGED child

\* sigint_handler and sigtstp_handler, lines 550-558 and 571-579: the pid
\* the signal is forwarded to, 0 when the handler returns without a kill
forward_target(J) ==
    IF getjobpid(J, fgpid(J)) = 0 THEN 0 ELSE fgpid(J)

\* sigint_handler: SIGINT is blocked by eval's mask
\* (SigintHandler_deletes: a handler that also drops the job it interrupts)
SigintHandler_deletes ==
    /\ shell = "running" /\ ~mask
    /\ last' = IF forward_target(jobs) = 0
               THEN Quiet("sigint_handler")
               ELSE Ev("sigint_handler", "", forward_target(jobs), "SIGINT")
    /\ jobs' = deletejob_jobs(jobs, forward_target(jobs))
    /\ UNCHANGED <<nextjid, shell, pc, locals, mask, kernel, inChld>>
    /\ UNCHANGED child
SigintHandler ==
    /\ shell = "running" /\ ~mask
    /\ last' = IF forward_target(jobs) = 0
               THEN Quiet("sigint_handler")
               ELSE Ev("sigint_handler", "", forward_target(jobs), "SIGINT")
    /\ UNCHANGED <<jobs, nextjid, shell, pc, locals, mask, kernel, inChld>>
    /\ UNCHANGED child

\* sigtstp_handler: eval's mask names SIGSTOP, not SIGTSTP (line 189), so
\* SIGTSTP is never blocked
\* (SigtstpHandler_optimistic: a handler that marks the job Stopped as it
\*  forwards the signal)
SigtstpHandler_optimistic ==
    /\ shell = "running"
    /\ last' = IF forward_target(jobs) = 0
               THEN Quiet("sigtstp_handler")
               ELSE Ev("sigtstp_handler", "", forward_target(jobs), "SIGTSTP")
    /\ jobs' = IF forward_target(jobs) = 0 THEN jobs
               ELSE [jobs EXCEPT ![getjobpid(jobs, forward_target(jobs))].state = ST]
    /\ UNCHANGED <<nextjid, shell, pc, locals, mask, kernel, inChld>>
    /\ UNCHANGED child
SigtstpHandler ==
    /\ shell = "running"
    /\ last' = IF forward_target(jobs) = 0
               THEN Quiet("sigtstp_handler")
               ELSE Ev("sigtstp_handler", "", forward_target(jobs), "SIGTSTP")
    /\ UNCHANGED <<jobs, nextjid, shell, pc, locals, mask, kernel, inChld>>
    /\ UNCHANGED child

(***************************************************************************)
(* The children.  A child may exit, be killed or be stopped at any time    *)
(* (by a signal the shell forwarded or by anyone else's); each raises      *)
(* SIGCHLD for the shell.                                                  *)
(***************************************************************************)
ChildDies(p, limit) ==
    /\ shell = "running"
    /\ nevents < limit
    /\ proc[p] \in {"run", "stopU", "stopR"}
    /\ proc' = [proc EXCEPT ![p] = "zombie"]
    /\ chldPending' = TRUE
    /\ nevents' = nevents + 1
    /\ last' = Idle
    /\ UNCHANGED <<jobs, nextjid, shell, pc, locals, mask, inChld, nforks>>
    /\ UNCHANGED child

ChildStops(p, limit) ==
    /\ shell = "running"
    /\ nevents < limit
    /\ proc[p] = "run"
    /\ proc' = [proc EXCEPT ![p] = "stopU"]
    /\ chldPending' = TRUE
    /\ nevents' = nevents + 1
    /\ last' = Idle
    /\ UNCHANGED <<jobs, nextjid, shell, pc, locals, mask, inChld, nforks>>
    /\ UNCHANGED child

(***************************************************************************)
(* The child branch of eval: do_redirect, setpgid, unblock, execve.  The   *)
(* child runs on its own copy of the shell's memory, so none of its steps  *)
(* writes a variable of the shell; the shell learns of it by SIGCHLD.      *)
(***************************************************************************)
\* fork returns 0 in the child (line 216)
ChildStart ==
    /\ child.pc = "none" /\ child.argv # <<>>
    /\ nforks = 1 /\ proc[1] = "run"
    /\ child' = [child EXCEPT !.pc = "do_redirect", !.pid = 1, !.i = 1]
    /\ last' = Idle
    /\ UNCHANGED <<jobs, nextjid, shell, pc, locals, mask, kernel, inChld>>

\* do_redirect, lines 352-390: one iteration of the loop.  outcome is what
\* open and close do for a redirection token: "ok", "openfail" (open
\* returns -1) or "closefail" (close returns -1); an open of the NULL that
\* ends argv always fails.  After a failure do_redirect returns to eval.
do_redirect(c, outcome) ==
    IF c.i > Len(c.argv) \/ c.argv[c.i] = "NULL"
    THEN [c EXCEPT !.pc = "setpgid"]
    ELSE IF c.argv[c.i] \notin {"<", ">"}
    THEN [c EXCEPT !.i = c.i + 1]
    ELSE IF outcome = "openfail" \/ c.i + 1 > Len(c.argv)
    THEN [c EXCEPT !.pc = "setpgid", !.openfail = TRUE]
    ELSE IF c.argv[c.i] = "<"
    THEN IF outcome = "closefail"
         THEN [c EXCEPT !.pc = "setpgid", !.stdin = "file"]
         ELSE [c EXCEPT !.stdin = "file", !.argv[c.i] = "NULL", !.i = c.i + 1]
    ELSE IF outcome = "closefail"
         THEN [c EXCEPT !.pc = "setpgid", !.stdout = "file"]
         ELSE [c EXCEPT !.stdout = "file", !.argv[c.i] = "NULL", !.i = c.i + 1]

\* do_redirect: the perror of an iteration
do_redirect_out(c, outcome) ==
    IF c.i > Len(c.argv) \/ c.argv[c.i] \notin {"<", ">"} THEN ""
    ELSE IF outcome = "openfail" \/ c.i + 1 > Len(c.argv) THEN "open"
    ELSE IF outcome = "closefail" THEN "close"
    ELSE ""

ChildRedirect(outcome) ==
    /\ child.pc = "do_redirect" /\ proc[child.pid] = "run"
    /\ child' = do_redirect(child, outcome)
    /\ last' = Ev("do_redirect", do_redirect_out(child, outcome), 0, "none")
    /\ UNCHANGED <<jobs, nextjid, shell, pc, locals, mask, kernel, inChld>>

\* eval, lines 219-221: setpgid(0, 0) and the child's own sigprocmask
ChildSetpgid ==
    /\ child.pc = "setpgid" /\ proc[child.pid] = "run"
    /\ child' = [child EXCEPT !.pc = "execve"]
    /\ last' = Idle
    /\ UNCHANGED <<jobs, nextjid, shell, pc, locals, mask, kernel, inChld>>

\* eval, lines 224-227: execve replaces the image, or fails, and then the
\* child prints "Command not found" and calls exit(0)
ChildExecve(found) ==
    /\ child.pc = "execve" /\ proc[child.pid] = "run"
    /\ IF found
       THEN /\ child' = [child EXCEPT !.pc = "image"]
            /\ last' = Idle
            /\ UNCHANGED <<proc, chldPending>>
       ELSE /\ child' = [child EXCEPT !.pc = "exited"]
            /\ last' = Ev("eval", "Command not found", 0, "none")
            /\ proc' = [proc EXCEPT ![child.pid] = "zombie"]
            /\ chldPending' = TRUE
    /\ UNCHANGED <<jobs, nextjid, shell, pc, locals, mask, inChld, nforks,
                   nevents>>

Next ==
    \/ \E b \in BOOLEAN : EvalFork(b, MaxForks)
    \/ EvalForkFails
    \/ AddjobPid
    \/ AddjobState
    \/ AddjobJid
    \/ EvalUnblock
    \/ WaitfgLookup
    \/ WaitfgReturn
    \/ Quit
    \/ Jobs
    \/ \E name \in {"bg", "fg"}, arg \in BgfgArgs : DoBgfg(name, arg)
    \/ BgfgReadPid
    \/ BgfgSetState
    \/ BgfgKill
    \/ SigchldEnter
    \/ \E p \in Pids, st \in {"exited", "signaled", "stopped"} : SigchldReap(p, st)
    \/ SigchldReturn
    \/ SigintHandler
    \/ SigtstpHandler
    \/ \E p \in Pids : ChildDies(p, MaxEvents)
    \/ \E p \in Pids : ChildStops(p, MaxEvents)

Spec == Init /\ [][Next]_vars

(***************************************************************************)
(* LaunchSpec: the same shell with a user who only launches executables.   *)
(* Every behaviour of LaunchSpec is a behaviour of the program; the shorter *)
(* menu leaves room for the launches that fill the table.                  *)
(***************************************************************************)
LaunchNext ==
    \/ \E b \in BOOLEAN : EvalFork(b, LaunchForks)
    \/ AddjobPid
    \/ AddjobState
    \/ AddjobJid
    \/ EvalUnblock
    \/ WaitfgLookup
    \/ WaitfgReturn
    \/ SigchldEnter
    \/ \E p \in Pids, st \in {"exited", "signaled", "stopped"} : SigchldReap(p, st)
    \/ SigchldReturn
    \/ \E p \in Pids : ChildDies(p, LaunchEvents)
    \/ \E p \in Pids : ChildStops(p, LaunchEvents)

LaunchSpec == Init /\ [][LaunchNext]_vars

(***************************************************************************)
(* ChildSpec: one launch, with the child followed through eval's child     *)
(* branch while the shell registers it, waits for it and reaps it.         *)
(***************************************************************************)
ChildInit == InitShell /\ \E a \in ArgvInputs : child = [NoChild EXCEPT !.argv = a]

ChildNext ==
    \/ \E b \in BOOLEAN : EvalFork(b, 1)
    \/ ChildStart
    \/ \E outcome \in {"ok", "openfail", "closefail"} : ChildRedirect(outcome)
    \/ ChildSetpgid
    \/ \E found \in BOOLEAN : ChildExecve(found)
    \/ AddjobPid
    \/ AddjobState
    \/ AddjobJid
    \/ EvalUnblock
    \/ WaitfgLookup
    \/ WaitfgReturn
    \/ SigchldEnter
    \/ \E p \in Pids, st \in {"exited", "signaled", "stopped"} : SigchldReap(p, st)
    \/ SigchldReturn
    \/ \E p \in Pids : ChildDies(p, ChildEvents)

ChildSpec == ChildInit /\ [][ChildNext]_vars

(***************************************************************************)
(* Properties                                                              *)
(***************************************************************************)
\* The live jobs: the slots with pid != 0
Live == {i \in Slots : jobs[i].pid # 0}
InWaitfg == pc \in {"waitfg", "waitfg_loop"}

\* C1: at most one slot of the job table has state Foreground, in every
\* reachable state.
C1_AtMostOneForeground ==
    Cardinality({i \in Slots : jobs[i].state = FG}) <= 1

\* C2: the job ids of the live jobs are pairwise distinct, in every
\* reachable state.
C2_LiveJobIdsDistinct ==
    \A i, j \in Live : i # j => jobs[i].jid # jobs[j].jid

\* C3: every slot whose state is not Empty has pid > 0, in every reachable
\* state.
C3_NonEmptySlotHasPid ==
    \A i \in Slots : jobs[i].state # UNDEF => jobs[i].pid > 0

\* The state changes the lifecycle Empty -> {FG|BG} -> (ST <-> {FG|BG})* ->
\* Empty allows
Lifecycle(a, b) ==
    \/ a = UNDEF /\ b \in {FG, BG}
    \/ a \in {FG, BG} /\ b = ST
    \/ a = ST /\ b \in {FG, BG}
    \/ a # UNDEF /\ b = UNDEF

C5_WaitfgReturnsNotForeground ==
    /\ [](pc = "prompt" => \A i \in Live : jobs[i].state # FG)
    /\ [][(InWaitfg /\ pc' = "prompt")
            => \A i \in Slots : ~(/\ jobs'[i].pid # 0
                                   /\ jobs'[i].pid = pid
                                   /\ jobs'[i].state = FG)]_vars

\* C5 witness: waitfg has returned for a foreground job that was stopped and
\* is still in the table.
C5_Witness ==
    /\ pc = "prompt"
    /\ last = Idle
    /\ \E i \in Live : jobs[i].state = ST /\ jobs[i].cmdline = CmdLine(FALSE)

\* C6: a foreground launch blocks the command loop while the child runs, and
\* once the child has exited or was killed the child-status handler deletes
\* the job and the command loop returns to the prompt.  For that the shell
\* must be alive in every state in which the main flow waits for a launched
\* child that has terminated and whose job is still in the table: in such a
\* state of a dead shell no step is left that deletes the job or returns.
C6_ForegroundLaunchReturns ==
    (/\ argv0 = "run" /\ InWaitfg
     /\ proc[pid] = "zombie"
     /\ getjobpid(jobs, pid) # 0)
        => shell = "running"

\* C7: when the child-status handler reaps the stop of a job it sets that
\* job's state to Stopped and changes nothing else in the table; a waitfg
\* that finds its job Stopped returns to the prompt; and a live Stopped slot
\* changes only when bg or fg writes its state or when the handler reaps the
\* termination of its process and clears it.
C7_StoppedForegroundJob ==
    /\ [][\A p \in Pids :
            (/\ inChld /\ proc[p] = "stopU" /\ proc'[p] = "stopR"
             /\ getjobpid(jobs, p) # 0)
            => /\ jobs' = [jobs EXCEPT ![getjobpid(jobs, p)].state = ST]
               /\ nextjid' = nextjid]_vars
    /\ []((/\ MainRuns /\ pc = "waitfg_loop"
           /\ jobs[currentjob].state = ST)
          => ENABLED WaitfgReturn)
    /\ [][\A i \in Slots :
            (jobs[i].pid # 0 /\ jobs[i].state = ST /\ jobs'[i] # jobs[i])
            => \/ /\ pc = "bgfg_state" /\ this_job = i
                  /\ jobs'[i] = [jobs[i] EXCEPT !.state = jobs'[i].state]
                  /\ jobs'[i].state \in {FG, BG}
               \/ /\ inChld /\ proc[jobs[i].pid] = "zombie"
                  /\ proc'[jobs[i].pid] = "none"
                  /\ jobs'[i] = clearjob]_vars

\* C7 witness: the foreground job was stopped, the handler has reported the
\* stop, and the main flow is back at the prompt with the job Stopped.
C7_Witness ==
    /\ pc = "prompt" /\ ~inChld
    /\ \E i \in Live : /\ jobs[i].state = ST
                       /\ jobs[i].cmdline = CmdLine(FALSE)
                       /\ proc[jobs[i].pid] = "stopR"

\* C8: a background launch that finds a free slot ends its registration
\* with the child in that slot in state Background, then returns to the
\* prompt, and never stands in waitfg.
C8_BackgroundLaunch ==
    /\ [][(pc = "addjob_jid" /\ bg /\ pc' # pc)
            => /\ pc' = "unblock"
               /\ jobs'[addjob_i].pid = pid
               /\ jobs'[addjob_i].state = BG]_vars
    /\ [][(pc = "unblock" /\ bg /\ pc' # pc) => pc' = "prompt"]_vars
    /\ [](bg => ~InWaitfg)

\* C8 witness: the main flow is back at the prompt after a background launch
\* whose child is still running.
C8_Witness ==
    /\ pc = "prompt"
    /\ \E i \in Live : /\ jobs[i].state = BG
                       /\ jobs[i].cmdline = CmdLine(TRUE)
                       /\ proc[jobs[i].pid] = "run"

\* C9: bg on a live job in state Stopped sets that job's state to
\* Background and changes no other slot; it then sends SIGCONT to the
\* process group of that job, which resumes, and returns to the prompt
\* without waiting.
C9_BgOnStopped ==
    /\ [][(/\ pc = "bgfg_state" /\ argv0 = "bg" /\ pc' # pc
           /\ jobs[this_job].pid # 0 /\ jobs[this_job].state = ST)
            => /\ jobs' = [jobs EXCEPT ![this_job].state = BG]
               /\ nextjid' = nextjid]_vars
    /\ [][(pc = "bgfg_kill" /\ argv0 = "bg" /\ pc' # pc)
            => /\ pc' = "prompt"
               /\ jobs' = jobs
               /\ last'.sig = "SIGCONT"
               /\ jobs[this_job].pid # 0
                    => /\ last'.to = jobs[this_job].pid
                       /\ proc'[jobs[this_job].pid] \notin Stopped]_vars

\* C9 witness: bg has just returned to the prompt after it continued a job
\* that was launched in the foreground and stopped; the job is Background
\* and its process runs.
C9_Witness ==
    /\ pc = "prompt"
    /\ last.op = "bg" /\ last.sig = "SIGCONT"
    /\ \E i \in Live : /\ jobs[i].pid = last.to
                       /\ jobs[i].state = BG
                       /\ jobs[i].cmdline = CmdLine(FALSE)
                       /\ proc[jobs[i].pid] = "run"

\* C10: bg or fg goes past its argument check only with a slot that holds a
\* live job; with no argument, or with a %jobid or pid that names no live
\* job, it prints its diagnostic and changes neither the table nor nextjid,
\* sends no signal, does not wait, and the shell goes on at the prompt.
C10_BgfgResolutionFailure ==
    /\ [][(pc = "prompt" /\ pc' \in {"bgfg_pid", "bgfg_state"})
            => jobs[this_job'].pid # 0]_vars
    /\ [][last'.op = "do_bgfg"
            => /\ pc = "prompt" /\ pc' = "prompt"
               /\ jobs' = jobs /\ nextjid' = nextjid
               /\ last'.sig = "none"
               /\ shell' = "running"
               /\ UNCHANGED <<locals, mask, kernel, inChld>>]_vars

\* C10 witness: a bg or fg %jobid that names no live job was refused while
\* the table holds a job.
C10_Witness ==
    /\ last.op = "do_bgfg" /\ last.out = "No such job"
    /\ Live # {}

\* C11: when fork fails during a launch the shell reports the failure and
\* keeps running: in the state the report leaves, the shell process is alive.
C11_ForkFailureNotFatal ==
    (last.op = "eval" /\ last.out = "Fork error") => shell = "running"

\* The table is full: every slot holds a live job
TableFull == \A i \in Slots : jobs[i].pid # 0

\* C12: when every slot is live, addjob fails: it prints its message and
\* leaves every slot and nextjid unchanged, and the child is in no slot.  The
\* main flow then goes on without waiting for a child that is in no slot: a
\* background launch from the unblocking to the prompt, a foreground launch
\* from the unblocking to waitfg and from waitfg's lookup to the prompt, and
\* that lookup can be taken whenever the main flow runs.
C12_TableFull ==
    /\ [][(pc = "addjob" /\ pc' # pc /\ TableFull)
            => /\ pc' = "unblock"
               /\ jobs' = jobs /\ nextjid' = nextjid
               /\ getjobpid(jobs', pid) = 0
               /\ last'.out = "Tried to create too many jobs"]_vars
    /\ [][(/\ pc = "unblock" /\ pc' # pc
           /\ getjobpid(jobs, pid) = 0)
            => /\ pc' = IF bg THEN "prompt" ELSE "waitfg"
               /\ jobs' = jobs /\ nextjid' = nextjid
               /\ shell' = "running"]_vars
    /\ [][(/\ pc = "waitfg" /\ pc' # pc
           /\ getjobpid(jobs, pid) = 0)
            => /\ pc' = "prompt"
               /\ jobs' = jobs /\ nextjid' = nextjid
               /\ shell' = "running"]_vars
    /\ []((MainRuns /\ pc = "waitfg" /\ getjobpid(jobs, pid) = 0)
          => ENABLED WaitfgLookup)

\* C12 witness: a foreground launch found the table full; its child runs,
\* is in no slot, the signals are unblocked again and eval is about to call
\* waitfg.
C12_Witness ==
    /\ pc = "waitfg" /\ argv0 = "run" /\ ~bg /\ ~mask
    /\ TableFull
    /\ getjobpid(jobs, pid) = 0
    /\ proc[pid] = "run"

\* C13: every invocation of a signal handler runs to completion and returns
\* to the main flow it interrupted, whatever child status it observes: the
\* shell is alive in every state in which sigchld_handler is on the stack.
C13_HandlersRunToCompletion ==
    inChld => shell = "running"

\* C14: every step in which deletejob removes a job leaves maxjid equal to
\* the largest job id among the live jobs that remain (0 if none) and
\* nextjid equal to maxjid + 1.
C14_RemoveRecomputesNextId ==
    [][\A p \in Pids :
         (/\ inChld /\ proc[p] = "zombie" /\ proc'[p] = "none"
          /\ getjobpid(jobs, p) # 0)
         => /\ maxjid(jobs') =
                 Max({0} \cup {jobs'[i].jid :
                                  i \in {k \in Slots : jobs'[k].pid # 0}})
            /\ nextjid' = maxjid(jobs') + 1]_vars

\* C14 witness: the handler has just removed a killed job from a slot below
\* a job that is still live, and nextjid is that job's id plus one.
C14_Witness ==
    /\ inChld
    /\ last = Ev("sigchld_handler", "terminated", 0, "none")
    /\ \E i, j \in Slots : /\ i < j
                            /\ jobs[i] = clearjob
                            /\ jobs[j].pid # 0 /\ jobs[j].jid >= 2
                            /\ nextjid = jobs[j].jid + 1

\* The main flow is between fork and the end of addjob
InRegistration == pc \in {"addjob", "addjob_state", "addjob_jid"}

\* addjob has written the pid of the new job and not yet all of its slot
SlotHalfWritten == pc \in {"addjob_state", "addjob_jid"}

\* C15: between the fork and the end of the registration the signals are
\* blocked and sigchld_handler does not run, and while addjob is writing the
\* slot neither sigint_handler nor sigtstp_handler runs and reads it: the
\* last step of every state with a half-written slot is a step of the main
\* flow.
C15_RegistrationBeforeSignals ==
    /\ InRegistration
          => (mask /\ ~inChld /\ last.op # "sigchld_handler")
    /\ SlotHalfWritten
          => last.op \notin {"sigint_handler", "sigtstp_handler"}

\* C16: when sigchld_handler reaps a child that is in the table, a child
\* that exited or was killed has its slot cleared, a child that stopped has
\* its slot's state set to Stopped with the same pid, job id and command
\* line, and no other slot changes.
C16_ReapUpdatesOneSlot ==
    [][\A p \in Pids :
         (inChld /\ getjobpid(jobs, p) # 0)
         => /\ (proc[p] = "zombie" /\ proc'[p] = "none")
               => jobs' = [jobs EXCEPT ![getjobpid(jobs, p)] = clearjob]
            /\ (proc[p] = "stopU" /\ proc'[p] = "stopR")
               => /\ jobs' = [jobs EXCEPT ![getjobpid(jobs, p)].state = ST]
                  /\ jobs'[getjobpid(jobs, p)].pid = p]_vars

\* C16 witness: inside the handler, after it has cleared the slot of a
\* terminated job and set a job whose stop it reaped to Stopped.
C16_Witness ==
    /\ inChld
    /\ last.op = "sigchld_handler"
    /\ \E i, j \in Slots : /\ i # j
                            /\ jobs[i] = clearjob
                            /\ jobs[j].pid # 0 /\ jobs[j].state = ST
                            /\ proc[jobs[j].pid] = "stopR"
    /\ \E p \in Pids : p <= nforks /\ proc[p] = "none"

\* C17: every tracked child that exits or is killed is eventually reaped and
\* its job deleted, one invocation of sigchld_handler reaping every child
\* with a pending status.  For that the shell must not have died abnormally
\* in a state where a terminated child is still in the job table: no step
\* is left there that reaps it.
C17_TerminatedJobsAreReaped ==
    \A p \in Pids :
        (proc[p] = "zombie" /\ getjobpid(jobs, p) # 0) => shell # "crashed"

\* The pids of the live jobs in state Foreground
fg_jobs == {jobs[i].pid : i \in {k \in Live : jobs[k].state = FG}}

\* C18: sigint_handler sends nothing when no live job is in state
\* Foreground; otherwise it sends SIGINT to the pid of a live job in state
\* Foreground; it never sends to a live job in another state; and it leaves
\* the table and nextjid unchanged.
C18_SigintForward ==
    /\ [](last.op = "sigint_handler"
            => /\ fg_jobs = {} => last.sig = "none"
               /\ fg_jobs # {} => (last.sig = "SIGINT" /\ last.to \in fg_jobs)
               /\ \A i \in Live : (last.sig # "none" /\ jobs[i].pid = last.to)
                                     => jobs[i].state = FG)
    /\ [][last'.op = "sigint_handler"
            => jobs' = jobs /\ nextjid' = nextjid]_vars

\* C19: sigtstp_handler leaves the table and nextjid unchanged, and a slot's
\* state becomes Stopped only in a step of sigchld_handler that reaps the
\* stop of that slot's pid.
C19_StopOnlyWhenReaped ==
    /\ [][last'.op = "sigtstp_handler"
            => jobs' = jobs /\ nextjid' = nextjid]_vars
    /\ [][\A i \in Slots :
            (jobs[i].state # ST /\ jobs'[i].state = ST)
            => /\ inChld
               /\ jobs[i].pid \in Pids
               /\ proc[jobs[i].pid] = "stopU"
               /\ proc'[jobs[i].pid] = "stopR"]_vars

\* C19 witness: the foreground job has stopped and sigtstp_handler has just
\* forwarded SIGTSTP to it; its stop is not reaped yet and its state is
\* still Foreground.
C19_Witness ==
    /\ last.op = "sigtstp_handler" /\ last.sig = "SIGTSTP"
    /\ \E i \in Live : /\ jobs[i].pid = last.to
                       /\ jobs[i].state = FG
                       /\ proc[jobs[i].pid] = "stopU"

\* C20: a live slot becomes empty only in a step of sigchld_handler that
\* reaps the exit or the killing of that slot's pid, and then the whole
\* slot is cleared.
C20_RemovedOnlyWhenReaped ==
    [][\A i \in Slots :
         (/\ jobs[i].pid # 0
          /\ \/ jobs'[i].pid = 0
             \/ jobs[i].state # UNDEF /\ jobs'[i].state = UNDEF)
         => /\ inChld
            /\ proc[jobs[i].pid] = "zombie"
            /\ proc'[jobs[i].pid] = "none"
            /\ jobs'[i] = clearjob]_vars

\* C20 witness: two jobs were launched and the handler has removed both
\* after their processes terminated; the table is empty again.
C20_Witness ==
    /\ inChld
    /\ nforks >= 2
    /\ \A p \in Pids : proc[p] = "none"
    /\ jobs = initjobs

\* C21: in the child of a launch whose redirection tokens are each followed
\* by a file name, once an open of do_redirect has failed the child is
\* terminated and never replaces its image with the target executable.
C21_OpenFailureEndsChild ==
    (/\ child.openfail
     /\ \A k \in 1..Len(child.argv) :
            child.argv[k] \in {"<", ">"} => k < Len(child.argv))
        => child.pc # "image"
====
